---- MODULE Spec2Model ----
(***************************************************************************)
(* PartyStream backend: the booking, stream and payment lifecycles of the  *)
(* REST handlers, over the rows they keep in the hosted database.          *)
(* Times are whole hours on a small clock; money is whole currency units.  *)
(***************************************************************************)
EXTENDS Integers, FiniteSets, Sequences, TLC

\* ---------------------------------------------------------------- bounds
MaxBookings == 2
MaxStreams == 2
MaxPayments == 2
MaxNow == 2
MaxViewers == 1
MaxInFlight == 2
MaxRate == 2
MaxMessages == 2
LifeRows == 1

\* ------------------------------------------------------- users and roles
Hosts == {"h1", "h2"}
Djs == {"d1", "d2"}
Admins == {"a1"}
Users == Hosts \cup Djs \cup Admins

\* role claim carried by the verified session token (req.user.role)
Role(u) == IF u \in Hosts THEN "host" ELSE IF u \in Djs THEN "dj" ELSE "admin"

Profiles == {"p1", "p2"}
NoProfile == "none"

\* dj_profiles.user_id : the user owning each DJ profile
ProfileOwner(p) == IF p = "p1" THEN "d1" ELSE "d2"

\* DjProfile.getByUserId : the first profile of the user, or none
getByUserId(u) ==
  IF \E p \in Profiles : ProfileOwner(p) = u
  THEN CHOOSE p \in Profiles : ProfileOwner(p) = u
  ELSE NoProfile

\* the start and end times a booking request may carry, in hours
Slots == {<<1, 2>>, <<2, 3>>, <<3, 4>>, <<1, 3>>, <<2, 2>>, <<3, 2>>}

BookingStatuses == {"pending", "confirmed", "cancelled", "completed"}
\* Stream.updateStatus accepts exactly these
StreamValidStatuses == {"created", "live", "ended", "failed"}
\* Booking.updatePaymentStatus accepts exactly these
ValidPaymentStatuses == {"pending", "processing", "completed", "failed", "refunded"}
\* Payment.updateStatus accepts exactly these
PaymentValidStatuses == {"pending", "processing", "succeeded", "failed", "refunded"}

VARIABLES
  now,           \* the server clock, in hours
  hourly_rate,   \* dj_profiles.hourly_rate, per profile
  bookings,      \* bookings table: id -> row
  streams,       \* streams table: id -> row
  payments,      \* payments table: id -> row
  nextId,        \* ids handed out so far, per table
  channels,      \* number of channels provisioned at the streaming service
  creating,      \* createStream requests past their checks, not yet inserted
  rooms,         \* socket rooms: the pairs <<user, booking>> of joined sockets
  chat_messages, \* chat_messages table: the rows stored
  emitted,       \* the chat:message broadcast emitted last
  last           \* the request handled last and its response

vars == <<now, hourly_rate, bookings, streams, payments, nextId, channels,
          creating, rooms, chat_messages, emitted, last>>

NoId == 0

\* the request handled last, with its HTTP response code
Resp(op, u, id, arg, code) ==
  [op |-> op, user |-> u, id |-> id, arg |-> arg, code |-> code]

\* no chat:message broadcast yet
NoEmit == [room |-> NoId, booking_id |-> NoId]

Init ==
  /\ now = 0
  /\ hourly_rate = [p \in Profiles |-> IF p = "p1" THEN 1 ELSE 2]
  /\ bookings = <<>>
  /\ streams = <<>>
  /\ payments = <<>>
  /\ nextId = [bookings |-> 1, streams |-> 1, payments |-> 1]
  /\ channels = 0
  /\ creating = {}
  /\ rooms = {}
  /\ chat_messages = {}
  /\ emitted = NoEmit
  /\ last = Resp("none", "none", NoId, "", 0)

\* the wall clock advances
Tick ==
  /\ now < MaxNow
  /\ now' = now + 1
  /\ UNCHANGED <<rooms, chat_messages, emitted, hourly_rate, bookings, streams, payments, nextId, channels, last, creating>>

\* db.delete of one row
Without(table, id) == [i \in DOMAIN table \ {id} |-> table[i]]

\* ------------------------------------------------------------- bookings

\* checkConflicts with the overlap test of half-open intervals
checkConflictsOpen(djProfileId, startTime, endTime, excludeBookingId) ==
  \E b \in DOMAIN bookings :
    /\ bookings[b].dj_profile_id = djProfileId
    /\ bookings[b].status = "confirmed"
    /\ bookings[b].start_time < endTime
    /\ bookings[b].end_time > startTime
    /\ (excludeBookingId # NoId => b # excludeBookingId)

\* Booking.checkConflicts: confirmed bookings of the DJ profile matched by
\* the filter or(start_time.lte.end, end_time.gte.start), the booking
\* excludeBookingId left out
checkConflicts(djProfileId, startTime, endTime, excludeBookingId) ==
  \E b \in DOMAIN bookings :
    /\ bookings[b].dj_profile_id = djProfileId
    /\ bookings[b].status = "confirmed"
    /\ (bookings[b].start_time <= endTime \/ bookings[b].end_time >= startTime)
    /\ (excludeBookingId # NoId => b # excludeBookingId)

\* endTime.diff(startTime, "hours", true)
durationHours(startTime, endTime) == endTime - startTime

\* BookingController.createBooking: the response code
createBookingCode(u, p, s, e) ==
  IF Role(u) # "host" THEN 403
  ELSE IF s < now THEN 400
  ELSE IF e < s THEN 400
  ELSE IF checkConflicts(p, s, e, NoId) THEN 409
  ELSE 201

\* BookingController.createBooking: the bookings table it leaves
createBookingRows(u, p, s, e) ==
  IF createBookingCode(u, p, s, e) # 201 THEN bookings
  ELSE bookings @@ (nextId.bookings :>
         [host_id |-> u, dj_profile_id |-> p,
          start_time |-> s, end_time |-> e,
          duration_hours |-> durationHours(s, e),
          total_amount |-> durationHours(s, e) * hourly_rate[p],
          status |-> "pending", payment_status |-> "pending"])

CreateBooking(u, p, s, e) ==
  LET code == createBookingCode(u, p, s, e) IN
  /\ code = 201 => nextId.bookings <= MaxBookings
  /\ bookings' = createBookingRows(u, p, s, e)
  /\ nextId' = IF code = 201 THEN [nextId EXCEPT !.bookings = @ + 1] ELSE nextId
  /\ last' = Resp("createBooking", u, IF code = 201 THEN nextId.bookings ELSE NoId,
                  "", code)
  /\ UNCHANGED <<rooms, chat_messages, emitted, now, hourly_rate, streams, payments, channels, creating>>

\* BookingController.updateBooking: the response code; withTimes says the
\* body carries start_time and end_time
updateBookingCode(u, id, withTimes, s, e) ==
  IF id \notin DOMAIN bookings THEN 500
  ELSE IF Role(u) # "admin" /\ bookings[id].host_id # u THEN 403
  ELSE IF bookings[id].status \in {"completed", "cancelled"} THEN 400
  ELSE IF ~withTimes THEN 200
  ELSE IF s < now THEN 400
  ELSE IF e < s THEN 400
  ELSE IF checkConflicts(bookings[id].dj_profile_id, s, e, id) THEN 409
  ELSE 200

\* updateBooking that writes the new times and duration and keeps the
\* amount computed earlier
updateBookingRowsStaleAmount(u, id, withTimes, s, e) ==
  IF updateBookingCode(u, id, withTimes, s, e) # 200 \/ ~withTimes THEN bookings
  ELSE [bookings EXCEPT ![id] =
         [@ EXCEPT !.start_time = s, !.end_time = e,
                   !.duration_hours = durationHours(s, e)]]

\* BookingController.updateBooking: the bookings table it leaves
updateBookingRows(u, id, withTimes, s, e) ==
  IF updateBookingCode(u, id, withTimes, s, e) # 200 \/ ~withTimes THEN bookings
  ELSE [bookings EXCEPT ![id] =
         [@ EXCEPT !.start_time = s, !.end_time = e,
                   !.duration_hours = durationHours(s, e),
                   !.total_amount =
                      durationHours(s, e) * hourly_rate[bookings[id].dj_profile_id]]]

UpdateBooking(u, id, withTimes, s, e) ==
  /\ bookings' = updateBookingRows(u, id, withTimes, s, e)
  /\ last' = Resp("updateBooking", u, id,
                  IF withTimes THEN "times" ELSE "notes",
                  updateBookingCode(u, id, withTimes, s, e))
  /\ UNCHANGED <<rooms, chat_messages, emitted, now, hourly_rate, streams, payments, nextId, channels, creating>>

\* the caller owns the DJ profile the booking is for
isBookingDj(u, id) ==
  getByUserId(u) # NoProfile /\ bookings[id].dj_profile_id = getByUserId(u)

\* DjController.updateProfile: the response code
updateProfileCode(u) ==
  IF Role(u) # "dj" THEN 403
  ELSE IF getByUserId(u) = NoProfile THEN 404
  ELSE 200

\* DjController.updateProfile: the hourly rates it leaves; a body without
\* hourly_rate, or with a zero one, leaves the rate alone
updateProfileRates(u, rate) ==
  IF updateProfileCode(u) = 200 /\ rate # 0
  THEN [hourly_rate EXCEPT ![getByUserId(u)] = rate]
  ELSE hourly_rate

UpdateProfile(u, rate) ==
  /\ hourly_rate' = updateProfileRates(u, rate)
  /\ last' = Resp("updateProfile", u, NoId, "", updateProfileCode(u))
  /\ UNCHANGED <<rooms, chat_messages, emitted, now, bookings, streams, payments, nextId, channels, creating>>

\* updateBookingStatus whose confirmed branch carries the caller test of
\* the cancelled branch: the booking's host passes it too
updateBookingStatusCodeHostConfirms(u, id, status) ==
  IF status \notin BookingStatuses THEN 400
  ELSE IF id \notin DOMAIN bookings THEN 500
  ELSE IF status \in {"cancelled", "confirmed"} THEN
    IF Role(u) # "admin" /\ bookings[id].host_id # u /\ ~isBookingDj(u, id)
    THEN 403 ELSE 200
  ELSE IF status = "completed" THEN
    IF Role(u) # "admin" THEN 403 ELSE 200
  ELSE 200

\* updateBookingStatus whose completed branch carries the caller test of
\* the confirmed branch: the booking's DJ passes it too
updateBookingStatusCodeDjCompletes(u, id, status) ==
  IF status \notin BookingStatuses THEN 400
  ELSE IF id \notin DOMAIN bookings THEN 500
  ELSE IF status = "cancelled" THEN
    IF Role(u) # "admin" /\ bookings[id].host_id # u /\ ~isBookingDj(u, id)
    THEN 403 ELSE 200
  ELSE IF status \in {"confirmed", "completed"} THEN
    IF Role(u) # "admin" /\ ~isBookingDj(u, id) THEN 403 ELSE 200
  ELSE 200

\* BookingController.updateBookingStatus: the response code
updateBookingStatusCode(u, id, status) ==
  IF status \notin BookingStatuses THEN 400
  ELSE IF id \notin DOMAIN bookings THEN 500
  ELSE IF status = "cancelled" THEN
    IF Role(u) # "admin" /\ bookings[id].host_id # u /\ ~isBookingDj(u, id)
    THEN 403 ELSE 200
  ELSE IF status = "confirmed" THEN
    IF Role(u) # "admin" /\ ~isBookingDj(u, id) THEN 403 ELSE 200
  ELSE IF status = "completed" THEN
    IF Role(u) # "admin" THEN 403 ELSE 200
  ELSE 200

\* Booking.updateStatus
updateStatus(table, id, status) ==
  IF id \in DOMAIN table THEN [table EXCEPT ![id].status = status] ELSE table

\* BookingController.updateBookingStatus: the bookings table it leaves
updateBookingStatusRows(u, id, status) ==
  IF updateBookingStatusCode(u, id, status) = 200
  THEN updateStatus(bookings, id, status) ELSE bookings

UpdateBookingStatus(u, id, status) ==
  /\ bookings' = updateBookingStatusRows(u, id, status)
  /\ last' = Resp("updateBookingStatus", u, id, status,
                  updateBookingStatusCode(u, id, status))
  /\ UNCHANGED <<rooms, chat_messages, emitted, now, hourly_rate, streams, payments, nextId, channels, creating>>

\* BookingController.deleteBooking: the response code
deleteBookingCode(u, id) ==
  IF id \notin DOMAIN bookings THEN 500
  ELSE IF Role(u) # "admin" /\ bookings[id].host_id # u THEN 403
  ELSE IF bookings[id].status \in {"confirmed", "completed"} THEN 400
  ELSE 200

\* rows of a table that reference a booking (ON DELETE CASCADE)
OfBooking(table, b) == {i \in DOMAIN table : table[i].booking_id = b}

DeleteBooking(u, id) ==
  LET code == deleteBookingCode(u, id) IN
  /\ bookings' = IF code = 200 THEN Without(bookings, id) ELSE bookings
  /\ streams' = IF code = 200
                THEN [i \in DOMAIN streams \ OfBooking(streams, id) |-> streams[i]]
                ELSE streams
  /\ payments' = IF code = 200
                 THEN [i \in DOMAIN payments \ OfBooking(payments, id) |-> payments[i]]
                 ELSE payments
  /\ last' = Resp("deleteBooking", u, id, "", code)
  /\ UNCHANGED <<rooms, chat_messages, emitted, now, hourly_rate, nextId, channels, creating>>

\* -------------------------------------------------------------- streams

\* viewers_peak of a row the Stream model never wrote the column of
Undefined == 0 - 1

\* Stream.getActiveByBookingId: a stream of the booking in status created
\* or active, or none
getActiveByBookingId(b) ==
  LET act == {i \in DOMAIN streams :
                streams[i].booking_id = b /\ streams[i].status \in {"created", "active"}}
  IN IF act = {} THEN NoId ELSE CHOOSE i \in act : \A j \in act : i <= j

\* the caller has the dj role and owns the given DJ profile
isDj(u, djProfileId) == Role(u) = "dj" /\ getByUserId(u) = djProfileId

\* createStream without its test of the booking's status
createStreamCodeAnyStatus(u, b, ivsUp) ==
  IF b \notin DOMAIN bookings THEN 500
  ELSE IF Role(u) # "admin" /\ ~isDj(u, bookings[b].dj_profile_id) THEN 403
  ELSE IF getActiveByBookingId(b) # NoId THEN 409
  ELSE IF ~ivsUp THEN 500
  ELSE 201

\* StreamController.createStream: the response code; ivsUp says the
\* streaming service answers
createStreamCode(u, b, ivsUp) ==
  IF b \notin DOMAIN bookings THEN 500
  ELSE IF bookings[b].status # "confirmed" THEN 400
  ELSE IF Role(u) # "admin" /\ ~isDj(u, bookings[b].dj_profile_id) THEN 403
  ELSE IF getActiveByBookingId(b) # NoId THEN 409
  ELSE IF ~ivsUp THEN 500
  ELSE 201

\* Stream.create: the row it inserts
StreamRow(b) ==
  [booking_id |-> b, dj_profile_id |-> bookings[b].dj_profile_id,
   host_id |-> bookings[b].host_id, status |-> "created",
   viewers_peak |-> Undefined]

\* StreamController.createStream: the streams table it leaves
createStreamRows(u, b, ivsUp) ==
  IF createStreamCode(u, b, ivsUp) # 201 THEN streams
  ELSE streams @@ (nextId.streams :> StreamRow(b))

\* StreamController.createStream: the channels provisioned once it has
\* answered; the controller provisions one channel, Stream.create a second
createStreamChannels(u, b, ivsUp) ==
  IF createStreamCode(u, b, ivsUp) = 201 THEN channels + 2 ELSE channels

\* StreamController.createStream, run without another request in between
CreateStream(u, b, ivsUp) ==
  LET code == createStreamCode(u, b, ivsUp) IN
  /\ code = 201 => nextId.streams <= MaxStreams
  /\ streams' = createStreamRows(u, b, ivsUp)
  /\ nextId' = IF code = 201 THEN [nextId EXCEPT !.streams = @ + 1] ELSE nextId
  /\ channels' = createStreamChannels(u, b, ivsUp)
  /\ last' = Resp("createStream", u, b, "", code)
  /\ UNCHANGED <<rooms, chat_messages, emitted, now, hourly_rate, bookings, payments, creating>>

\* StreamController.createStream up to its first call to the streaming
\* service: the checks on the booking, the caller and the existing stream.
\* A request that passes them waits for the service; one that fails them
\* is answered at once.
BeginCreateStream(u, b) ==
  LET code == createStreamCode(u, b, TRUE)
      free == {r \in 1..MaxInFlight : \A c \in creating : c.req # r} IN
  /\ code = 201 => free # {} /\ nextId.streams + Cardinality(creating) <= MaxStreams
  /\ creating' = IF code = 201
                  THEN creating \cup {[user |-> u, booking |-> b,
                                       req |-> CHOOSE r \in free : \A q \in free : r <= q]}
                  ELSE creating
  /\ last' = IF code = 201 THEN last ELSE Resp("createStream", u, b, "", code)
  /\ UNCHANGED <<rooms, chat_messages, emitted, now, hourly_rate, bookings, streams, payments, nextId, channels>>

\* createStream that reads the booking's streams again before its insert
\* and answers 409 when one is created or active
FinishCreateStreamRechecked(c, ivsUp) ==
  LET ok == ivsUp /\ getActiveByBookingId(c.booking) = NoId IN
  /\ c \in creating
  /\ c.booking \in DOMAIN bookings
  /\ creating' = creating \ {c}
  /\ streams' = IF ok THEN streams @@ (nextId.streams :> StreamRow(c.booking))
                 ELSE streams
  /\ nextId' = IF ok THEN [nextId EXCEPT !.streams = @ + 1] ELSE nextId
  /\ channels' = IF ok THEN channels + 2 ELSE channels
  /\ last' = Resp("createStream", c.user, c.booking, "",
                  IF ok THEN 201 ELSE IF ivsUp THEN 409 ELSE 500)
  /\ UNCHANGED <<rooms, chat_messages, emitted, now, hourly_rate, bookings, payments>>

\* StreamController.createStream from the streaming service's answer on:
\* the insert of the stream row and the response
FinishCreateStream(c, ivsUp) ==
  /\ c \in creating
  /\ c.booking \in DOMAIN bookings
  /\ creating' = creating \ {c}
  /\ streams' = IF ivsUp THEN streams @@ (nextId.streams :> StreamRow(c.booking))
                 ELSE streams
  /\ nextId' = IF ivsUp THEN [nextId EXCEPT !.streams = @ + 1] ELSE nextId
  /\ channels' = IF ivsUp THEN channels + 2 ELSE channels
  /\ last' = Resp("createStream", c.user, c.booking, "", IF ivsUp THEN 201 ELSE 500)
  /\ UNCHANGED <<rooms, chat_messages, emitted, now, hourly_rate, bookings, payments>>

\* the columns of a row as Stream.create writes it, id included
StreamRowFields ==
  {"id", "booking_id", "dj_profile_id", "host_id", "title", "status",
   "ivs_channel_arn", "ivs_ingest_endpoint", "ivs_playback_url",
   "ivs_stream_key", "created_at"}

\* StreamController.createStream: the fields of the stream object in its
\* response, the inserted row and the credentials of the new channel
createStreamFields(u, b, ivsUp) ==
  IF createStreamCode(u, b, ivsUp) = 201
  THEN StreamRowFields \cup {"rtmp_url", "stream_key"}
  ELSE {}

\* the fields the read handlers add to the row they return: the live
\* metrics of an active stream when the streaming service answers, and for
\* the DJ the credentials fetched through the row's stream_key_arn
viewFields(row, callerIsDj, ivsUp) ==
  (IF row.status = "active" /\ ivsUp THEN {"viewer_count", "health"} ELSE {})
  \cup (IF callerIsDj /\ "stream_key_arn" \in StreamRowFields /\ ivsUp
        THEN {"rtmp_url", "stream_key"} ELSE {})

\* the caller is the booking's host, an admin, or the DJ of its profile
mayView(u, b) ==
  \/ Role(u) = "admin"
  \/ bookings[b].host_id = u
  \/ isDj(u, bookings[b].dj_profile_id)

\* StreamController.getStreamById: the response code
getStreamByIdCode(u, id) ==
  IF id \notin DOMAIN streams THEN 500
  ELSE IF streams[id].booking_id \notin DOMAIN bookings THEN 500
  ELSE IF ~mayView(u, streams[id].booking_id) THEN 403
  ELSE 200

\* StreamController.getStreamById: the fields of the stream object in its
\* response
getStreamByIdFields(u, id, ivsUp) ==
  IF getStreamByIdCode(u, id) # 200 THEN {}
  ELSE StreamRowFields
       \cup viewFields(streams[id],
                       isDj(u, bookings[streams[id].booking_id].dj_profile_id),
                       ivsUp)

GetStreamById(u, id) ==
  /\ last' = Resp("getStreamById", u, id, "", getStreamByIdCode(u, id))
  /\ UNCHANGED <<rooms, chat_messages, emitted, now, hourly_rate, bookings, streams, payments, nextId, channels,
                 creating>>

\* StreamController.getStreamByBookingId: the response code
getStreamByBookingIdCode(u, b) ==
  IF b \notin DOMAIN bookings THEN 500
  ELSE IF ~mayView(u, b) THEN 403
  ELSE IF getActiveByBookingId(b) = NoId THEN 404
  ELSE 200

\* StreamController.getStreamByBookingId: the fields of the stream object
\* in its response
getStreamByBookingIdFields(u, b, ivsUp) ==
  IF getStreamByBookingIdCode(u, b) # 200 THEN {}
  ELSE StreamRowFields
       \cup viewFields(streams[getActiveByBookingId(b)],
                       isDj(u, bookings[b].dj_profile_id), ivsUp)

GetStreamByBookingId(u, b) ==
  /\ last' = Resp("getStreamByBookingId", u, b, "", getStreamByBookingIdCode(u, b))
  /\ UNCHANGED <<rooms, chat_messages, emitted, now, hourly_rate, bookings, streams, payments, nextId, channels,
                 creating>>

\* Stream.updateStatus: whether the status passes its validation
streamStatusValid(status) == status \in StreamValidStatuses

\* StreamController.startStream: the response code
startStreamCode(u, id) ==
  IF id \notin DOMAIN streams THEN 500
  ELSE IF streams[id].status # "created" THEN 400
  ELSE IF Role(u) # "admin" /\ ~isDj(u, streams[id].dj_profile_id) THEN 403
  ELSE IF ~streamStatusValid("active") THEN 500
  ELSE 200

StartStream(u, id) ==
  LET code == startStreamCode(u, id) IN
  /\ streams' = IF code = 200 THEN [streams EXCEPT ![id].status = "active"]
                ELSE streams
  /\ last' = Resp("startStream", u, id, "", code)
  /\ UNCHANGED <<rooms, chat_messages, emitted, now, hourly_rate, bookings, payments, nextId, channels, creating>>

\* endStream without its check that the stream is active
endStreamCodeAnyStatus(u, id) ==
  IF id \notin DOMAIN streams THEN 500
  ELSE IF Role(u) # "admin" /\ ~isDj(u, streams[id].dj_profile_id)
          /\ streams[id].host_id # u THEN 403
  ELSE IF ~streamStatusValid("ended") THEN 500
  ELSE 200

\* StreamController.endStream: the response code
endStreamCode(u, id) ==
  IF id \notin DOMAIN streams THEN 500
  ELSE IF streams[id].status # "active" THEN 400
  ELSE IF Role(u) # "admin" /\ ~isDj(u, streams[id].dj_profile_id)
          /\ streams[id].host_id # u THEN 403
  ELSE IF ~streamStatusValid("ended") THEN 500
  ELSE 200

\* viewerCount > stream.viewers_peak, false against a missing value
exceedsPeak(viewerCount, peak) == peak # Undefined /\ viewerCount > peak

\* StreamController.endStream; viewerCount is the live count the streaming
\* service reports, Undefined when the fetch fails
EndStream(u, id, viewerCount) ==
  LET code == endStreamCode(u, id) IN
  /\ streams' =
       IF code # 200 THEN streams
       ELSE [streams EXCEPT ![id] =
              [@ EXCEPT !.status = "ended",
                        !.viewers_peak =
                           IF viewerCount # Undefined /\ exceedsPeak(viewerCount, @)
                           THEN viewerCount ELSE @]]
  /\ bookings' =
       IF code = 200 /\ (isDj(u, streams[id].dj_profile_id) \/ Role(u) = "admin")
       THEN updateStatus(bookings, streams[id].booking_id, "completed")
       ELSE bookings
  /\ last' = Resp("endStream", u, id, "", code)
  /\ UNCHANGED <<rooms, chat_messages, emitted, now, hourly_rate, payments, nextId, channels, creating>>

\* StreamController.deleteStream: the response code; ivsUp says the
\* streaming service deletes the channel Stream.delete asks it to
deleteStreamCode(u, id, ivsUp) ==
  IF Role(u) # "admin" THEN 403
  ELSE IF id \notin DOMAIN streams THEN 500
  ELSE IF streams[id].status = "active" THEN 400
  ELSE IF ~ivsUp THEN 500
  ELSE 200

DeleteStream(u, id, ivsUp) ==
  LET code == deleteStreamCode(u, id, ivsUp) IN
  /\ streams' = IF code = 200 THEN Without(streams, id) ELSE streams
  /\ channels' = IF code = 200 THEN channels - 1 ELSE channels
  /\ last' = Resp("deleteStream", u, id, "", code)
  /\ UNCHANGED <<rooms, chat_messages, emitted, now, hourly_rate, bookings, payments, nextId, creating>>

\* ------------------------------------------------------------- payments

\* Payment.getByBookingIdAndStatus: a payment of the booking in the status
getByBookingIdAndStatus(b, status) ==
  LET ps == {i \in DOMAIN payments :
               payments[i].booking_id = b /\ payments[i].status = status}
  IN IF ps = {} THEN NoId ELSE CHOOSE i \in ps : \A j \in ps : i <= j

\* config.payments.serviceFeePercentage, in percent
serviceFeePercentage == 10

\* Math.round(total_amount * serviceFeePercentage * 100) / 100, in cents
serviceFee(total_amount) == total_amount * serviceFeePercentage

\* PaymentController.createPaymentIntent: the response code; stripeUp says
\* the payment processor answers
createPaymentIntentCode(u, b, stripeUp) ==
  IF b \notin DOMAIN bookings THEN 500
  ELSE IF Role(u) # "admin" /\ bookings[b].host_id # u THEN 403
  ELSE IF bookings[b].status \notin {"pending", "confirmed"} THEN 400
  ELSE IF getByBookingIdAndStatus(b, "succeeded") # NoId THEN 409
  ELSE IF ~stripeUp THEN 500
  ELSE 201

\* Payment.create: the row it inserts; the payment intent carries the id
\* of its payment row
PaymentRow(b) ==
  [booking_id |-> b, stripe_payment_intent_id |-> nextId.payments,
   payment_intent_id |-> NoId,
   amount |-> bookings[b].total_amount,
   service_fee |-> serviceFee(bookings[b].total_amount),
   status |-> "pending"]

\* PaymentController.createPaymentIntent: the payments table it leaves
createPaymentIntentRows(u, b, stripeUp) ==
  IF createPaymentIntentCode(u, b, stripeUp) # 201 THEN payments
  ELSE payments @@ (nextId.payments :> PaymentRow(b))

CreatePaymentIntent(u, b, stripeUp) ==
  LET code == createPaymentIntentCode(u, b, stripeUp) IN
  /\ code = 201 => nextId.payments <= MaxPayments
  /\ payments' = createPaymentIntentRows(u, b, stripeUp)
  /\ nextId' = IF code = 201 THEN [nextId EXCEPT !.payments = @ + 1] ELSE nextId
  /\ last' = Resp("createPaymentIntent", u, b, "", code)
  /\ UNCHANGED <<rooms, chat_messages, emitted, now, hourly_rate, bookings, streams, channels, creating>>

\* Payment.getByStripePaymentIntentId
getByStripePaymentIntentId(intent) ==
  LET ps == {i \in DOMAIN payments : payments[i].stripe_payment_intent_id = intent}
  IN IF ps = {} THEN NoId ELSE CHOOSE i \in ps : TRUE

\* Payment.updateStatus: whether the status passes its validation
paymentStatusValid(status) == status \in PaymentValidStatuses

\* Booking.updatePaymentStatus: whether the status passes its validation
updatePaymentStatusValid(paymentStatus) == paymentStatus \in ValidPaymentStatuses

\* Payment.createPaymentIntent of the payment model: the row it inserts,
\* with the intent under payment_intent_id and no service fee
ModelPaymentRow(b) ==
  [booking_id |-> b, stripe_payment_intent_id |-> NoId,
   payment_intent_id |-> nextId.payments,
   amount |-> bookings[b].total_amount,
   service_fee |-> Undefined,
   status |-> "pending"]

\* Payment.createPaymentIntent of the payment model, called for the amount
\* of the booking: it throws (500) on a missing field, a failing processor
\* or a failing insert, and returns (200) otherwise
ModelCreatePaymentIntent(b, stripeUp) ==
  LET ok == b \in DOMAIN bookings /\ bookings[b].total_amount # 0 /\ stripeUp IN
  /\ ok => nextId.payments <= MaxPayments
  /\ payments' = IF ok THEN payments @@ (nextId.payments :> ModelPaymentRow(b))
                  ELSE payments
  /\ nextId' = IF ok THEN [nextId EXCEPT !.payments = @ + 1] ELSE nextId
  /\ last' = Resp("Payment.createPaymentIntent", "model", b, "",
                  IF ok THEN 200 ELSE 500)
  /\ UNCHANGED <<rooms, chat_messages, emitted, now, hourly_rate, bookings, streams, channels, creating>>

\* Payment.refund: it goes through when the payment exists, carries a
\* payment_intent_id and the processor creates the refund
refundOk(id, stripeUp) ==
  id \in DOMAIN payments /\ payments[id].payment_intent_id # NoId /\ stripeUp

\* Payment.refund: the payments table it leaves
refundPayments(id, stripeUp) ==
  IF refundOk(id, stripeUp) /\ paymentStatusValid("refunded")
  THEN [payments EXCEPT ![id].status = "refunded"]
  ELSE payments

\* Payment.refund that cancels the booking whatever its status
refundBookingsCancelsAll(id, stripeUp) ==
  IF ~refundOk(id, stripeUp) \/ ~paymentStatusValid("refunded") THEN bookings
  ELSE LET b == payments[id].booking_id IN
       IF b \notin DOMAIN bookings \/ ~updatePaymentStatusValid("refunded")
       THEN bookings
       ELSE [bookings EXCEPT ![b] =
              [@ EXCEPT !.payment_status = "refunded", !.status = "cancelled"]]

\* Payment.refund: the bookings table it leaves
refundBookings(id, stripeUp) ==
  IF ~refundOk(id, stripeUp) \/ ~paymentStatusValid("refunded") THEN bookings
  ELSE LET b == payments[id].booking_id IN
       IF b \notin DOMAIN bookings \/ ~updatePaymentStatusValid("refunded")
       THEN bookings
       ELSE [bookings EXCEPT ![b] =
              [@ EXCEPT !.payment_status = "refunded",
                        !.status = IF @ = "completed" THEN @ ELSE "cancelled"]]

\* Payment.refund: it returns its result (200) or throws (500)
Refund(id, stripeUp) ==
  /\ payments' = refundPayments(id, stripeUp)
  /\ bookings' = refundBookings(id, stripeUp)
  /\ last' = Resp("Payment.refund", "model", id, "",
                  IF refundOk(id, stripeUp) THEN 200 ELSE 500)
  /\ UNCHANGED <<rooms, chat_messages, emitted, now, hourly_rate, streams, nextId, channels, creating>>

\* handlePaymentSuccess looking its payment up by booking and status: the
\* first pending payment of the booking the intent was created for
paymentSuccessPaymentsByBooking(intent) ==
  LET pid == getByStripePaymentIntentId(intent) IN
  IF pid = NoId \/ ~paymentStatusValid("succeeded") THEN payments
  ELSE LET q == getByBookingIdAndStatus(payments[pid].booking_id, "pending") IN
       IF q = NoId THEN payments
       ELSE [payments EXCEPT ![q].status = "succeeded"]

\* handlePaymentSuccess: the payments table it leaves
paymentSuccessPayments(intent) ==
  LET pid == getByStripePaymentIntentId(intent) IN
  IF pid = NoId \/ ~paymentStatusValid("succeeded") THEN payments
  ELSE [payments EXCEPT ![pid].status = "succeeded"]

\* handlePaymentSuccess: the bookings table it leaves; the intent's
\* metadata names the booking of its payment row
paymentSuccessBookings(intent) ==
  LET pid == getByStripePaymentIntentId(intent) IN
  IF pid = NoId \/ ~paymentStatusValid("succeeded") THEN bookings
  ELSE IF ~updatePaymentStatusValid("paid") THEN bookings
  ELSE LET b == payments[pid].booking_id IN
       IF b \notin DOMAIN bookings THEN bookings
       ELSE [bookings EXCEPT ![b] =
              [@ EXCEPT !.payment_status = "paid",
                        !.status = IF @ = "pending" THEN "confirmed" ELSE @]]

\* handlePaymentFailed: the payments table it leaves
paymentFailedPayments(intent) ==
  LET pid == getByStripePaymentIntentId(intent) IN
  IF pid = NoId \/ ~paymentStatusValid("failed") THEN payments
  ELSE [payments EXCEPT ![pid].status = "failed"]

WebhookEvents == {"payment_intent.succeeded", "payment_intent.payment_failed",
                  "charge.refunded"}

\* handlePaymentFailed: the bookings table it leaves, with the booking's
\* payment_status marked failed as Payment.processWebhook marks it
paymentFailedBookingsMarked(intent) ==
  LET pid == getByStripePaymentIntentId(intent) IN
  IF pid = NoId \/ payments[pid].booking_id \notin DOMAIN bookings THEN bookings
  ELSE [bookings EXCEPT ![payments[pid].booking_id].payment_status = "failed"]

\* handlePaymentFailed: the bookings table it leaves; it writes no booking
paymentFailedBookings(intent) == bookings

\* an error raised while the event is processed: the storage does not
\* answer, or a status fails the validation of the model it is written
\* through
webhookRaises(type, intent, withBooking, dbUp) ==
  LET pid == getByStripePaymentIntentId(intent) IN
  \/ /\ type = "payment_intent.succeeded" /\ withBooking
     /\ \/ ~dbUp
        \/ pid # NoId /\ ~paymentStatusValid("succeeded")
        \/ pid # NoId /\ ~updatePaymentStatusValid("paid")
  \/ /\ type = "payment_intent.payment_failed"
     /\ \/ ~dbUp
        \/ pid # NoId /\ ~paymentStatusValid("failed")

\* an error reaches handleWebhook from handlers that have no try block
webhookEscapesUncaught(type, intent, withBooking, dbUp) ==
  webhookRaises(type, intent, withBooking, dbUp)

\* an error reaches handleWebhook: never, both handlers wrap their whole
\* body in a try block whose catch only logs
webhookEscapes(type, intent, withBooking, dbUp) ==
  webhookRaises(type, intent, withBooking, dbUp) /\ FALSE

\* handleWebhook that processes the event before it verifies the signature
handleWebhookPaymentsUnverified(signed, type, intent, withBooking, dbUp) ==
  IF ~dbUp THEN payments
  ELSE IF type = "payment_intent.succeeded"
    THEN (IF withBooking THEN paymentSuccessPayments(intent) ELSE payments)
  ELSE IF type = "payment_intent.payment_failed"
    THEN paymentFailedPayments(intent)
  ELSE payments

\* PaymentController.handleWebhook: the payments table it leaves; signed
\* says the signature verifies, withBooking that the intent's metadata
\* names a booking, dbUp that the storage answers
handleWebhookPayments(signed, type, intent, withBooking, dbUp) ==
  IF ~signed \/ ~dbUp THEN payments
  ELSE IF type = "payment_intent.succeeded"
    THEN (IF withBooking THEN paymentSuccessPayments(intent) ELSE payments)
  ELSE IF type = "payment_intent.payment_failed"
    THEN paymentFailedPayments(intent)
  ELSE payments

\* PaymentController.handleWebhook: the bookings table it leaves
handleWebhookBookings(signed, type, intent, withBooking, dbUp) ==
  IF ~signed \/ ~dbUp THEN bookings
  ELSE IF type = "payment_intent.succeeded"
    THEN (IF withBooking THEN paymentSuccessBookings(intent) ELSE bookings)
  ELSE IF type = "payment_intent.payment_failed"
    THEN paymentFailedBookings(intent)
  ELSE bookings

\* PaymentController.handleWebhook: the response code
handleWebhookCode(signed, type, intent, withBooking, dbUp) ==
  IF ~signed THEN 400
  ELSE IF webhookEscapes(type, intent, withBooking, dbUp) THEN 500
  ELSE 200

\* PaymentController.handleWebhook
HandleWebhook(signed, type, intent, withBooking, dbUp) ==
  /\ payments' = handleWebhookPayments(signed, type, intent, withBooking, dbUp)
  /\ bookings' = handleWebhookBookings(signed, type, intent, withBooking, dbUp)
  /\ last' = Resp("handleWebhook", "stripe", intent, type,
                  handleWebhookCode(signed, type, intent, withBooking, dbUp))
  /\ UNCHANGED <<rooms, chat_messages, emitted, now, hourly_rate, streams, nextId, channels, creating>>

\* ----------------------------------------------------------------- chat

\* a chat check that lets every authenticated user pass
chatAuthorizedAnyone(u, b) == TRUE

\* the check shared by join:booking, chat:message and createChatMessage:
\* the user is an admin, the booking's host, or a dj owning its DJ profile
chatAuthorized(u, b) ==
  \/ Role(u) = "admin"
  \/ bookings[b].host_id = u
  \/ isDj(u, bookings[b].dj_profile_id)

\* socket join:booking: the event the socket is answered with
joinBookingEvent(u, b) ==
  IF b \notin DOMAIN bookings THEN "error"
  ELSE IF ~chatAuthorized(u, b) THEN "error"
  ELSE "join:success"

\* socket join:booking
JoinBooking(u, b) ==
  /\ rooms' = IF joinBookingEvent(u, b) = "join:success"
              THEN rooms \cup {<<u, b>>} ELSE rooms
  /\ last' = Resp("join:booking", u, b, joinBookingEvent(u, b), 0)
  /\ UNCHANGED <<now, hourly_rate, bookings, streams, payments, nextId,
                 channels, creating, chat_messages, emitted>>

\* socket leave:booking
LeaveBooking(u, b) ==
  /\ rooms' = rooms \ {<<u, b>>}
  /\ last' = Resp("leave:booking", u, b, "", 0)
  /\ UNCHANGED <<now, hourly_rate, bookings, streams, payments, nextId,
                 channels, creating, chat_messages, emitted>>

\* Chat.create: the row it stores
ChatRow(u, b) == [booking_id |-> b, user_id |-> u]

\* socket chat:message: the event emitted; withContent says the data carry
\* a content
chatMessageEvent(u, b, withContent) ==
  IF ~withContent THEN "error"
  ELSE IF b \notin DOMAIN bookings THEN "error"
  ELSE IF ~chatAuthorized(u, b) THEN "error"
  ELSE "chat:message"

\* socket chat:message
SocketChatMessage(u, b, withContent) ==
  LET sent == chatMessageEvent(u, b, withContent) = "chat:message" IN
  /\ sent /\ ChatRow(u, b) \notin chat_messages
       => Cardinality(chat_messages) < MaxMessages
  /\ chat_messages' = IF sent THEN chat_messages \cup {ChatRow(u, b)}
                      ELSE chat_messages
  /\ emitted' = IF sent THEN [room |-> b, booking_id |-> ChatRow(u, b).booking_id]
                ELSE emitted
  /\ last' = Resp("chat:message", u, b, chatMessageEvent(u, b, withContent), 0)
  /\ UNCHANGED <<now, hourly_rate, bookings, streams, payments, nextId,
                 channels, creating, rooms>>

\* ChatController.createChatMessage: the response code
createChatMessageCode(u, b, withContent) ==
  IF ~withContent THEN 400
  ELSE IF b \notin DOMAIN bookings THEN 500
  ELSE IF ~chatAuthorized(u, b) THEN 403
  ELSE 201

\* ChatController.createChatMessage; ioUp says the application holds a
\* socket server
CreateChatMessage(u, b, withContent, ioUp) ==
  LET code == createChatMessageCode(u, b, withContent) IN
  /\ code = 201 /\ ChatRow(u, b) \notin chat_messages
       => Cardinality(chat_messages) < MaxMessages
  /\ chat_messages' = IF code = 201 THEN chat_messages \cup {ChatRow(u, b)}
                      ELSE chat_messages
  /\ emitted' = IF code = 201 /\ ioUp
                THEN [room |-> b, booking_id |-> ChatRow(u, b).booking_id]
                ELSE emitted
  /\ last' = Resp("createChatMessage", u, b,
                  IF code = 201 /\ ioUp THEN "chat:message" ELSE "", code)
  /\ UNCHANGED <<now, hourly_rate, bookings, streams, payments, nextId,
                 channels, creating, rooms>>

\* ------------------------------------------------------- specifications

BookingIds == 1..MaxBookings
StreamIds == 1..MaxStreams
PaymentIds == 1..MaxPayments

\* booking requests of the lifecycle specifications: DJ profile p1, one slot
BookOne(u, cap) ==
  /\ createBookingCode(u, "p1", 1, 2) = 201 => nextId.bookings <= cap
  /\ CreateBooking(u, "p1", 1, 2)

\* every handler, over one booking, one stream and one payment
Next ==
  \/ \E u \in Users : BookOne(u, LifeRows)
  \/ \E u \in Users, id \in 1..LifeRows : UpdateBooking(u, id, FALSE, 0, 0)
  \/ \E u \in Users, id \in 1..LifeRows, st \in BookingStatuses \cup {"bogus"} :
       UpdateBookingStatus(u, id, st)
  \/ \E u \in Users, id \in 1..LifeRows : DeleteBooking(u, id)
  \/ \E u \in Users, b \in 1..LifeRows, up \in BOOLEAN :
       /\ createStreamCode(u, b, up) = 201 => nextId.streams <= LifeRows
       /\ CreateStream(u, b, up)
  \/ \E u \in Users, id \in 1..LifeRows : StartStream(u, id)
  \/ \E u \in Users, id \in 1..LifeRows, v \in {Undefined} \cup 0..MaxViewers :
       EndStream(u, id, v)
  \/ \E u \in Users, id \in 1..LifeRows, up \in BOOLEAN : DeleteStream(u, id, up)
  \/ \E u \in Users, b \in 1..LifeRows, up \in BOOLEAN :
       /\ createPaymentIntentCode(u, b, up) = 201 => nextId.payments <= LifeRows
       /\ CreatePaymentIntent(u, b, up)
  \/ \E signed \in BOOLEAN, type \in WebhookEvents, intent \in 1..LifeRows,
        withBooking \in BOOLEAN, dbUp \in BOOLEAN :
       HandleWebhook(signed, type, intent, withBooking, dbUp)

Spec == Init /\ [][Next]_vars

\* booking and rescheduling over every slot of the clock
NextBooking ==
  \/ Tick
  \/ \E u \in {"h1", "d1"}, p \in Profiles, t \in Slots :
       CreateBooking(u, p, t[1], t[2])
  \/ \E u \in {"h1", "h2", "a1"}, id \in BookingIds, t \in Slots :
       UpdateBooking(u, id, TRUE, t[1], t[2])
  \/ \E u \in {"h1", "d1", "d2"}, id \in BookingIds, st \in {"confirmed", "cancelled"} :
       UpdateBookingStatus(u, id, st)

SpecBooking == Init /\ [][NextBooking]_vars

\* the streams of the bookings of one host and one DJ
NextStream ==
  \/ \E u \in Users : BookOne(u, MaxBookings)
  \/ \E u \in Users, id \in BookingIds, st \in BookingStatuses :
       UpdateBookingStatus(u, id, st)
  \/ \E u \in Users, b \in BookingIds, up \in BOOLEAN : CreateStream(u, b, up)
  \/ \E u \in Users, id \in StreamIds : StartStream(u, id)
  \/ \E u \in Users, id \in StreamIds, v \in {Undefined} \cup 0..MaxViewers :
       EndStream(u, id, v)
  \/ \E u \in Users, id \in StreamIds, up \in BOOLEAN : DeleteStream(u, id, up)

SpecStream == Init /\ [][NextStream]_vars

\* the payments of one booking
NextPayment ==
  \/ \E u \in Users : BookOne(u, 1)
  \/ \E u \in Users, st \in BookingStatuses : UpdateBookingStatus(u, 1, st)
  \/ \E u \in Users, up \in BOOLEAN : CreatePaymentIntent(u, 1, up)
  \/ \E signed \in BOOLEAN, type \in WebhookEvents, intent \in PaymentIds,
        withBooking \in BOOLEAN, dbUp \in BOOLEAN :
       HandleWebhook(signed, type, intent, withBooking, dbUp)

SpecPayment == Init /\ [][NextPayment]_vars

\* createStream requests of one booking, interleaved at their calls to the
\* streaming service
NextRace ==
  \/ \E u \in {"h1"} : BookOne(u, 1)
  \/ \E u \in {"d1", "a1", "h1"}, st \in {"confirmed", "cancelled"} :
       UpdateBookingStatus(u, 1, st)
  \/ \E u \in {"d1", "d2", "a1", "h1"} : BeginCreateStream(u, 1)
  \/ \E c \in creating, up \in BOOLEAN : FinishCreateStream(c, up)
  \/ \E u \in {"d1", "h1"}, id \in StreamIds : StartStream(u, id)

SpecRace == Init /\ [][NextRace]_vars

\* the payment model's own intents and refunds, over one booking
NextRefund ==
  \/ BookOne("h1", 1)
  \/ \E u \in {"a1", "h1"}, st \in {"confirmed", "completed", "cancelled"} :
       UpdateBookingStatus(u, 1, st)
  \/ \E up \in BOOLEAN : ModelCreatePaymentIntent(1, up)
  \/ CreatePaymentIntent("h1", 1, TRUE)
  \/ \E id \in PaymentIds, up \in BOOLEAN : Refund(id, up)

SpecRefund == Init /\ [][NextRefund]_vars

\* bookings of one DJ whose hourly rate changes
NextAmount ==
  \/ \E t \in Slots : CreateBooking("h1", "p1", t[1], t[2])
  \/ \E u \in {"h1", "h2"}, id \in BookingIds, t \in Slots :
       UpdateBooking(u, id, TRUE, t[1], t[2])
  \/ \E u \in {"h1"}, id \in BookingIds : UpdateBooking(u, id, FALSE, 0, 0)
  \/ \E u \in {"d1", "h1"}, rate \in 0..MaxRate : UpdateProfile(u, rate)

SpecAmount == Init /\ [][NextAmount]_vars

\* one booking that is paid for and then moved to other times
NextPaid ==
  \/ BookOne("h1", 1)
  \/ \E u \in {"h1", "h2"}, t \in Slots : UpdateBooking(u, 1, TRUE, t[1], t[2])
  \/ \E u \in {"h1", "d1"}, up \in BOOLEAN : CreatePaymentIntent(u, 1, up)
  \/ \E signed \in BOOLEAN, type \in WebhookEvents, intent \in PaymentIds :
       HandleWebhook(signed, type, intent, TRUE, TRUE)

SpecPaid == Init /\ [][NextPaid]_vars

\* what the stream handlers return to each kind of caller
NextView ==
  \/ \E u \in {"h1", "h2"} : BookOne(u, MaxBookings)
  \/ \E u \in {"d1", "a1"}, id \in BookingIds, st \in {"confirmed", "cancelled"} :
       UpdateBookingStatus(u, id, st)
  \/ \E u \in {"d1", "h1", "a1"}, b \in BookingIds, up \in BOOLEAN :
       CreateStream(u, b, up)
  \/ \E u \in Users, id \in StreamIds : GetStreamById(u, id)
  \/ \E u \in Users, b \in BookingIds : GetStreamByBookingId(u, b)

SpecView == Init /\ [][NextView]_vars

\* the chat handlers over one booking of either host; requests also name a
\* booking that is not stored
NextChat ==
  \/ \E u \in Hosts : BookOne(u, LifeRows)
  \/ \E u \in Users, b \in BookingIds : JoinBooking(u, b)
  \/ \E u \in Users, b \in BookingIds : LeaveBooking(u, b)
  \/ \E u \in Users, b \in BookingIds, c \in BOOLEAN : SocketChatMessage(u, b, c)
  \/ \E u \in Users, b \in BookingIds, c \in BOOLEAN, io \in BOOLEAN :
       CreateChatMessage(u, b, c, io)

SpecChat == Init /\ [][NextChat]_vars

\* ---------------------------------------------------------------- claims

\* a confirmed booking of the DJ profile, other than self, whose interval
\* meets [s, e]: existing.start <= e and existing.end >= s
ConfirmedOverlap(p, s, e, self) ==
  \E b \in DOMAIN bookings \ {self} :
    /\ bookings[b].dj_profile_id = p
    /\ bookings[b].status = "confirmed"
    /\ bookings[b].start_time <= e
    /\ bookings[b].end_time >= s

C2_DisjointSucceeds ==
  \A u \in Hosts, p \in Profiles, t \in Slots :
    (t[1] > now /\ t[2] > t[1] /\ ~ConfirmedOverlap(p, t[1], t[2], NoId))
    => createBookingCode(u, p, t[1], t[2]) = 201

\* the streams of booking b that are created or active
LiveStreams(b) ==
  {i \in DOMAIN streams :
     streams[i].booking_id = b /\ streams[i].status \in {"created", "active"}}

\* C3: at any time a booking has at most one stream that is created or
\* active, and a createStream for a confirmed booking that has one, by a
\* caller allowed to create it, is answered 409 and inserts no stream row.
C3_OneLiveStream ==
  /\ \A b \in DOMAIN bookings : Cardinality(LiveStreams(b)) <= 1
  /\ \A u \in Users, b \in DOMAIN bookings, up \in BOOLEAN :
       ( /\ LiveStreams(b) # {}
         /\ bookings[b].status = "confirmed"
         /\ Role(u) = "admin" \/ isDj(u, bookings[b].dj_profile_id) )
       => /\ createStreamCode(u, b, up) = 409
          /\ createStreamRows(u, b, up) = streams

\* the payments of booking b that have succeeded
Succeeded(b) ==
  {i \in DOMAIN payments :
     payments[i].booking_id = b /\ payments[i].status = "succeeded"}

\* C4: in every state reached by createPaymentIntent calls and webhook
\* deliveries a booking has at most one succeeded payment, and a
\* createPaymentIntent for a booking that has one is answered 409 and
\* inserts no payment row.
C4_OneSucceededPayment ==
  /\ \A b \in DOMAIN bookings : Cardinality(Succeeded(b)) <= 1
  /\ \A u \in Users, b \in DOMAIN bookings, up \in BOOLEAN :
       ( /\ Succeeded(b) # {}
         /\ Role(u) = "admin" \/ bookings[b].host_id = u
         /\ bookings[b].status \in {"pending", "confirmed"} )
       => /\ createPaymentIntentCode(u, b, up) = 409
          /\ createPaymentIntentRows(u, b, up) = payments

\* C5: no step takes a booking that has left pending back to pending.
C5_NeverBackToPending ==
  [][\A b \in DOMAIN bookings :
       (b \in DOMAIN bookings' /\ bookings[b].status # "pending")
       => bookings'[b].status # "pending"]_vars

\* C6: updateBookingStatus with target confirmed, asked by anyone who is
\* neither an admin nor the owner of the booking's DJ profile (the
\* booking's own host included), is answered 403 and leaves the bookings
\* as they were.
C6_ConfirmOnlyByDjOrAdmin ==
  \A u \in Users, id \in DOMAIN bookings :
    (Role(u) # "admin" /\ ProfileOwner(bookings[id].dj_profile_id) # u)
    => /\ updateBookingStatusCode(u, id, "confirmed") = 403
       /\ updateBookingStatusRows(u, id, "confirmed") = bookings

\* C6 witness: the booking's own host asked to confirm it, got 403, and the
\* booking is still pending
C6_Witness ==
  /\ last.op = "updateBookingStatus" /\ last.arg = "confirmed" /\ last.code = 403
  /\ last.id \in DOMAIN bookings
  /\ bookings[last.id].host_id = last.user
  /\ bookings[last.id].status = "pending"

\* C7: a step that makes a booking completed is an updateBookingStatus of
\* that booking by an admin, or an endStream of one of its streams by the
\* stream's DJ or an admin; a booking is never inserted as completed.
C7_CompletedOnlyByAdminOrEndStream ==
  [][\A b \in DOMAIN bookings' :
       ( /\ bookings'[b].status = "completed"
         /\ b \in DOMAIN bookings => bookings[b].status # "completed" )
       => /\ b \in DOMAIN bookings
          /\ \/ /\ last'.op = "updateBookingStatus" /\ last'.id = b
                /\ Role(last'.user) = "admin"
             \/ /\ last'.op = "endStream" /\ last'.id \in DOMAIN streams
                /\ streams[last'.id].booking_id = b
                /\ \/ Role(last'.user) = "admin"
                   \/ isDj(last'.user, streams[last'.id].dj_profile_id)]_vars

\* C7 witness: an admin's updateBookingStatus has completed a booking
C7_Witness ==
  /\ last.op = "updateBookingStatus" /\ last.arg = "completed" /\ last.code = 200
  /\ Role(last.user) = "admin"
  /\ last.id \in DOMAIN bookings /\ bookings[last.id].status = "completed"

\* C8: a step that makes a booking cancelled starts from pending or
\* confirmed and is an updateBookingStatus asked by the booking's host,
\* the owner of its DJ profile or an admin.
C8_CancelOnlyFromOpen ==
  [][\A b \in DOMAIN bookings :
       ( /\ b \in DOMAIN bookings'
         /\ bookings[b].status # "cancelled"
         /\ bookings'[b].status = "cancelled" )
       => /\ bookings[b].status \in {"pending", "confirmed"}
          /\ last'.op = "updateBookingStatus" /\ last'.id = b
          /\ \/ Role(last'.user) = "admin"
             \/ bookings[b].host_id = last'.user
             \/ ProfileOwner(bookings[b].dj_profile_id) = last'.user]_vars

\* C9: createStream for a booking that is not confirmed is answered 400,
\* inserts no stream row and provisions no channel, whoever asks and
\* whether or not the streaming service answers.
C9_NoStreamUnlessConfirmed ==
  \A u \in Users, b \in DOMAIN bookings, up \in BOOLEAN :
    bookings[b].status # "confirmed"
    => /\ createStreamCode(u, b, up) = 400
       /\ createStreamRows(u, b, up) = streams
       /\ createStreamChannels(u, b, up) = channels

\* C9 witness: the DJ of a pending booking asked for a stream and got 400,
\* with no stream row and no channel in existence
C9_Witness ==
  /\ last.op = "createStream" /\ last.code = 400
  /\ last.id \in DOMAIN bookings
  /\ bookings[last.id].status = "pending"
  /\ isDj(last.user, bookings[last.id].dj_profile_id)
  /\ streams = <<>> /\ channels = 0

\* C10: an endStream that follows a startStream of the same stream which
\* passed the checks on the stream's status and on its caller succeeds; it
\* leaves the booking completed when asked by the stream's DJ or an admin,
\* and as it was when asked by the booking's host.
C10_EndStreamCascade ==
  [][( /\ last.op = "startStream" /\ last.id \in DOMAIN streams
       /\ last.code \notin {400, 403}
       /\ last'.op = "endStream" /\ last'.id = last.id )
     => LET s == streams[last.id]
            b == s.booking_id IN
        /\ Role(last'.user) = "admin" \/ isDj(last'.user, s.dj_profile_id)
           => last'.code = 200 /\ bookings'[b].status = "completed"
        /\ (Role(last'.user) = "host" /\ s.host_id = last'.user)
           => last'.code = 200 /\ bookings'[b].status = bookings[b].status]_vars

\* C11: in the flow createBooking, confirmation by the DJ, createStream,
\* startStream, endStream, each request of the DJ succeeds: the DJ's
\* confirmation of a pending booking is answered 200 and leaves it
\* confirmed, and the DJ's startStream of a created stream of a confirmed
\* booking is answered 200 and leaves the stream active.
C11_FlowSucceeds ==
  [][/\ ( /\ last'.op = "updateBookingStatus" /\ last'.arg = "confirmed"
          /\ last'.id \in DOMAIN bookings
          /\ bookings[last'.id].status = "pending"
          /\ isBookingDj(last'.user, last'.id) )
        => /\ last'.code = 200
           /\ bookings'[last'.id].status = "confirmed"
     /\ ( /\ last'.op = "startStream" /\ last'.id \in DOMAIN streams
          /\ streams[last'.id].status = "created"
          /\ streams[last'.id].booking_id \in DOMAIN bookings
          /\ bookings[streams[last'.id].booking_id].status = "confirmed"
          /\ isDj(last'.user, streams[last'.id].dj_profile_id) )
        => /\ last'.code = 200
           /\ streams'[last'.id].status = "active"]_vars

\* C12: a verified payment_intent.succeeded event whose intent names a
\* stored payment leaves that payment succeeded and its booking with
\* payment_status paid, and with status confirmed if it was pending and
\* with its former status otherwise.
C12_SuccessMarksPaid ==
  [][( /\ last'.op = "handleWebhook" /\ last'.arg = "payment_intent.succeeded"
       /\ last'.code = 200
       /\ getByStripePaymentIntentId(last'.id) # NoId
       /\ payments[getByStripePaymentIntentId(last'.id)].booking_id
            \in DOMAIN bookings )
     => LET pid == getByStripePaymentIntentId(last'.id)
            b == payments[pid].booking_id IN
        /\ payments'[pid].status = "succeeded"
        /\ bookings'[b].payment_status = "paid"
        /\ bookings'[b].status =
             IF bookings[b].status = "pending" THEN "confirmed"
             ELSE bookings[b].status]_vars

\* C13: after a step in which a verified payment_intent.succeeded event
\* was handled with the storage answering, handling the same event again
\* leaves the payments and the bookings as the first delivery left them.
C13_SuccessIdempotent ==
  [][\A intent \in PaymentIds, withBooking \in BOOLEAN :
       ( /\ last'.op = "handleWebhook" /\ last'.code = 200
         /\ last'.arg = "payment_intent.succeeded" /\ last'.id = intent
         /\ payments' = handleWebhookPayments(TRUE, "payment_intent.succeeded",
                                              intent, withBooking, TRUE)
         /\ bookings' = handleWebhookBookings(TRUE, "payment_intent.succeeded",
                                              intent, withBooking, TRUE) )
       => /\ handleWebhookPayments(TRUE, "payment_intent.succeeded",
                                   intent, withBooking, TRUE)' = payments'
          /\ handleWebhookBookings(TRUE, "payment_intent.succeeded",
                                   intent, withBooking, TRUE)' = bookings'
    ]_vars

\* C13 witness: a delivery has marked one of two payments of a booking
\* succeeded while the other is still pending
C13_Witness ==
  /\ last.op = "handleWebhook" /\ last.arg = "payment_intent.succeeded"
  /\ last.code = 200
  /\ getByStripePaymentIntentId(last.id) # NoId
  /\ payments[getByStripePaymentIntentId(last.id)].status = "succeeded"
  /\ \E q \in DOMAIN payments :
       /\ payments[q].status = "pending"
       /\ payments[q].booking_id
            = payments[getByStripePaymentIntentId(last.id)].booking_id

\* C14: no response of getStreamById, getStreamByBookingId or createStream
\* to a caller whose role is host or admin carries stream_key or rtmp_url.
C14_KeyOnlyToDj ==
  \A u \in Hosts \cup Admins, up \in BOOLEAN :
    /\ \A id \in DOMAIN streams :
         getStreamByIdFields(u, id, up) \cap {"stream_key", "rtmp_url"} = {}
    /\ \A b \in DOMAIN bookings :
         /\ getStreamByBookingIdFields(u, b, up) \cap {"stream_key", "rtmp_url"} = {}
         /\ createStreamFields(u, b, up) \cap {"stream_key", "rtmp_url"} = {}

\* C15 as stated: every stored booking has duration_hours = end_time -
\* start_time and total_amount = duration_hours times the hourly rate of
\* its DJ profile, in every state reached by createBooking, updateBooking
\* and DJ profile updates.
C15_AmountMatchesRate ==
  \A b \in DOMAIN bookings :
    /\ bookings[b].duration_hours = bookings[b].end_time - bookings[b].start_time
    /\ bookings[b].total_amount
         = bookings[b].duration_hours * hourly_rate[bookings[b].dj_profile_id]

\* the step writes the times of booking b: it inserts b, or it is an
\* updateBooking of b carrying times that is answered 200
WritesTimes(b) ==
  \/ b \notin DOMAIN bookings
  \/ /\ last'.op = "updateBooking" /\ last'.id = b
     /\ last'.arg = "times" /\ last'.code = 200

\* C15 as amended: every stored booking has duration_hours = end_time -
\* start_time; a step that writes a booking's times leaves its
\* total_amount at duration_hours times the hourly rate its DJ profile has
\* at that step; every other step, a DJ profile update included, leaves
\* the total_amount of every stored booking as it was.
C15_AmountFixedWhenTimesWritten ==
  [][\A b \in DOMAIN bookings' :
       /\ bookings'[b].duration_hours
            = bookings'[b].end_time - bookings'[b].start_time
       /\ WritesTimes(b)
          => bookings'[b].total_amount
               = bookings'[b].duration_hours
                   * hourly_rate[bookings'[b].dj_profile_id]
       /\ ~WritesTimes(b)
          => bookings'[b].total_amount = bookings[b].total_amount]_vars

\* C15 witness: a DJ profile update has just changed the rate, and a stored
\* booking of two hours still carries the amount of the former rate
C15_Witness ==
  /\ last.op = "updateProfile" /\ last.code = 200
  /\ \E b \in DOMAIN bookings :
       /\ bookings[b].duration_hours = 2
       /\ bookings[b].total_amount
            # bookings[b].duration_hours * hourly_rate[bookings[b].dj_profile_id]

C17_UnsignedRejected ==
  \A type \in WebhookEvents, intent \in PaymentIds,
     withBooking \in BOOLEAN, dbUp \in BOOLEAN :
    /\ handleWebhookCode(FALSE, type, intent, withBooking, dbUp) = 400
    /\ handleWebhookPayments(FALSE, type, intent, withBooking, dbUp) = payments
    /\ handleWebhookBookings(FALSE, type, intent, withBooking, dbUp) = bookings

\* C17 witness: a payment_intent.succeeded request naming a stored pending
\* payment was answered 400 and the payment is still pending
C17_Witness ==
  /\ last.op = "handleWebhook" /\ last.code = 400
  /\ last.arg = "payment_intent.succeeded"
  /\ getByStripePaymentIntentId(last.id) # NoId
  /\ payments[getByStripePaymentIntentId(last.id)].status = "pending"

\* C18: a webhook request whose signature verifies is answered 200 for
\* every event type, whether or not a payment matches the intent, whether
\* or not the metadata names a booking, and whether or not the storage
\* answers.
C18_SignedAlwaysAcknowledged ==
  \A type \in WebhookEvents, intent \in PaymentIds,
     withBooking \in BOOLEAN, dbUp \in BOOLEAN :
    handleWebhookCode(TRUE, type, intent, withBooking, dbUp) = 200

\* C18 witness: a verified payment_intent.succeeded event was answered 200
\* although the write of the booking's payment_status raised an error: the
\* payment is succeeded and the booking's payment_status is still pending
C18_Witness ==
  /\ last.op = "handleWebhook" /\ last.code = 200
  /\ last.arg = "payment_intent.succeeded"
  /\ getByStripePaymentIntentId(last.id) # NoId
  /\ payments[getByStripePaymentIntentId(last.id)].status = "succeeded"
  /\ bookings[payments[getByStripePaymentIntentId(last.id)].booking_id]
       .payment_status = "pending"
  /\ webhookRaises(last.arg, last.id, TRUE, TRUE)

\* C19: a verified payment_intent.payment_failed event whose intent names
\* a stored payment leaves that payment failed and every booking as it
\* was, status and payment_status included.
C19_FailedLeavesBooking ==
  \A intent \in PaymentIds, withBooking \in BOOLEAN :
    getByStripePaymentIntentId(intent) # NoId
    => /\ handleWebhookPayments(TRUE, "payment_intent.payment_failed", intent,
                                withBooking, TRUE)
            [getByStripePaymentIntentId(intent)].status = "failed"
       /\ handleWebhookBookings(TRUE, "payment_intent.payment_failed", intent,
                                withBooking, TRUE) = bookings

\* C19 witness: a verified payment_intent.payment_failed event has marked
\* a payment failed, and its booking is confirmed with payment_status
\* pending
C19_Witness ==
  /\ last.op = "handleWebhook" /\ last.code = 200
  /\ last.arg = "payment_intent.payment_failed"
  /\ getByStripePaymentIntentId(last.id) # NoId
  /\ payments[getByStripePaymentIntentId(last.id)].status = "failed"
  /\ bookings[payments[getByStripePaymentIntentId(last.id)].booking_id]
       .status = "confirmed"
  /\ bookings[payments[getByStripePaymentIntentId(last.id)].booking_id]
       .payment_status = "pending"

C21_PaymentTransitions ==
  [][\A p \in DOMAIN payments \cap DOMAIN payments' :
       payments'[p].status # payments[p].status
       => \/ /\ payments[p].status = "pending"
             /\ payments'[p].status \in {"succeeded", "failed"}
             /\ last'.op = "handleWebhook"
          \/ /\ payments[p].status = "succeeded"
             /\ payments'[p].status = "refunded"
             /\ last'.op = "Payment.refund"
    ]_vars

\* C22: a deleteStream of a stored stream is answered 403 to a caller who
\* is not an admin and 400 when the stream is active, both leaving the
\* streams as they were; every other deleteStream removes the stream's
\* record, whether or not the streaming service deletes the channel.
C22_DeleteRemovesRecord ==
  [][(last'.op = "deleteStream" /\ last'.id \in DOMAIN streams)
     => IF Role(last'.user) # "admin"
          THEN last'.code = 403 /\ streams' = streams
        ELSE IF streams[last'.id].status = "active"
          THEN last'.code = 400 /\ streams' = streams
        ELSE last'.id \notin DOMAIN streams'
    ]_vars

\* C23: a step adds a pair <<user, booking>> to the rooms, stores a chat
\* message of a user for a booking, or broadcasts one, only when the user
\* is the booking's host, the owner of the booking's DJ profile or an
\* admin; and a broadcast goes to the room of the booking its message
\* belongs to.
C23_ChatOnlyForParties ==
  [][LET party(u, b) ==
           /\ b \in DOMAIN bookings
           /\ \/ u \in Admins
              \/ bookings[b].host_id = u
              \/ ProfileOwner(bookings[b].dj_profile_id) = u
     IN /\ \A r \in rooms' \ rooms : party(r[1], r[2])
        /\ \A m \in chat_messages' \ chat_messages : party(m.user_id, m.booking_id)
        /\ last'.arg = "chat:message"
           => /\ party(last'.user, emitted'.booking_id)
              /\ emitted'.room = emitted'.booking_id
              /\ [booking_id |-> emitted'.booking_id, user_id |-> last'.user]
                   \in chat_messages'
    ]_vars

\* C23 witness: host h2 was refused the room of a booking of host h1 in
\* which h1 sits, and a message of h1 for that booking is stored and was
\* broadcast to its room
C23_Witness ==
  /\ last.op = "join:booking" /\ last.user = "h2" /\ last.arg = "error"
  /\ last.id \in DOMAIN bookings /\ bookings[last.id].host_id = "h1"
  /\ <<"h1", last.id>> \in rooms /\ <<"h2", last.id>> \notin rooms
  /\ [booking_id |-> last.id, user_id |-> "h1"] \in chat_messages
  /\ emitted.room = last.id

\* C24: every stored booking has end_time strictly after start_time, in
\* every state reached by createBooking and updateBooking.
C24_EndAfterStart ==
  \A b \in DOMAIN bookings : bookings[b].end_time > bookings[b].start_time

\* C25: a createStream request that has passed its checks is not checked
\* again: the step that ends it answers 201 or 500, never 409, and on 201
\* inserts a stream in status created for its booking, whatever streams
\* other requests have inserted since its check. Two requests for one
\* confirmed booking that both pass the check before either inserts both
\* succeed and leave two created streams.
C25_InsertNotRechecked ==
  [][Cardinality(creating') < Cardinality(creating)
     => /\ last'.op = "createStream" /\ last'.code \in {201, 500}
        /\ last'.code = 201
           => \E c \in creating \ creating' :
                /\ c.booking = last'.id
                /\ DOMAIN streams' = DOMAIN streams \cup {nextId.streams}
                /\ nextId.streams \notin DOMAIN streams
                /\ streams'[nextId.streams].booking_id = c.booking
                /\ streams'[nextId.streams].status = "created"
    ]_vars

\* C25 witness: the second of two interleaved createStream requests was
\* answered 201 and the confirmed booking has two streams in status created
C25_Witness ==
  /\ last.op = "createStream" /\ last.code = 201
  /\ last.id \in DOMAIN bookings /\ bookings[last.id].status = "confirmed"
  /\ Cardinality({i \in DOMAIN streams :
                    streams[i].booking_id = last.id /\ streams[i].status = "created"}) = 2

\* C26: in every reachable state no two confirmed bookings of the same DJ
\* profile have overlapping time intervals.
C26_NoConfirmedOverlap ==
  \A a, b \in DOMAIN bookings :
    ( /\ a # b
      /\ bookings[a].status = "confirmed" /\ bookings[b].status = "confirmed"
      /\ bookings[a].dj_profile_id = bookings[b].dj_profile_id )
    => \/ bookings[a].end_time <= bookings[b].start_time
       \/ bookings[b].end_time <= bookings[a].start_time

\* C27: in every reachable state a booking whose status is cancelled has
\* no payment in status succeeded.
C27_CancelledNotCharged ==
  \A p \in DOMAIN payments :
    ( /\ payments[p].status = "succeeded"
      /\ payments[p].booking_id \in DOMAIN bookings )
    => bookings[payments[p].booking_id].status # "cancelled"

C30_PeakMonotone ==
  [][/\ \A s \in DOMAIN streams' \ DOMAIN streams : streams'[s].viewers_peak = 0
     /\ \A s \in DOMAIN streams' \cap DOMAIN streams :
          streams'[s].viewers_peak >= streams[s].viewers_peak
    ]_vars
====
